---- MODULE Spec2Model ----
(***************************************************************************)
(* A model of ra-core's useListParams hook                                 *)
(* (packages/ra-core/src/controller/list/useListParams.ts): the resolver   *)
(* (parseQueryFromLocation, hasCustomParams, getQuery, getNumberOrDefault) *)
(* and the per-tick change batcher (changeParams, the debounced            *)
(* setFilters, the location effect).                                       *)
(*                                                                         *)
(* JavaScript values are tagged records; an object is a function from the  *)
(* keys it has to their values, and a key it lacks reads as undefined.     *)
(* A string is a sequence of tokens: the characters that parseInt and      *)
(* JSON.parse look at ("0".."9", "-", "+", " ") and opaque blocks of       *)
(* letters ("name").  The text JSON.stringify produces is Text(doc).       *)
(***************************************************************************)
EXTENDS Integers, Sequences, FiniteSets, TLC

VARIABLES
    opts,              \* the hook's options: disableSyncWithLocation, sort, perPage, filterDefaultValues
    location,          \* location.search, as its sequence of key/value pairs
    params,            \* reduxState.admin.listParams[resource]: <<>> (undefined) or <<p>>
    localParams,       \* useState<ListParams>(): <<>> or <<p>>
    tempParams,        \* the tempParams ref: <<>> or <<p>>
    flushTimers,       \* the setTimeout(..., 0) callbacks not yet run, each with the action it closed over
    debounceTimers,    \* the armed lodash debounce timers, each with the closure it will call
    queryFromLocation, \* the last render's queryFromLocation
    query,             \* the last render's query
    effectSearch,      \* the location.search the location effect last ran for: <<>> or <<search>>
    phase,             \* "render": React has a render to do; "effect": the location effect is due; "idle"; "unmounted"
    budget,            \* consumer calls and navigations left in this run
    batch,             \* history: the open (or last) batch: the query resolved when it opened, its actions
    flushed,           \* history: the last flush: <<>> or <<what it wrote>>
    counts             \* history: batches opened, navigate calls, setLocalParams calls

vars == <<opts, location, params, localParams, tempParams, flushTimers,
          debounceTimers, queryFromLocation, query, effectSearch, phase,
          budget, batch, flushed, counts>>

-----------------------------------------------------------------------------
(* JavaScript values *)

Null == [t |-> "null"]
NaN == [t |-> "nan"]
Undefined == [t |-> "undefined"]
Num(n) == [t |-> "num", n |-> n]
Bool(b) == [t |-> "bool", b |-> b]
Str(cs) == [t |-> "str", s |-> cs]
Text(doc) == [t |-> "text", doc |-> doc]
List(items) == [t |-> "list", items |-> items]
Obj(kv) == [t |-> "obj", kv |-> kv]
Date(iso) == [t |-> "date", iso |-> iso]

\* obj[key], undefined when the object has no such key
Get(obj, key) == IF key \in DOMAIN obj THEN obj[key] ELSE Undefined

\* obj[key] = value; a key set to undefined is dropped (no reader tells them apart)
Put(obj, key, value) ==
    IF value = Undefined
    THEN [k \in DOMAIN obj \ {key} |-> obj[k]]
    ELSE [k \in DOMAIN obj \cup {key} |-> IF k = key THEN value ELSE obj[k]]

\* delete obj[key]
Delete(obj, key) == [k \in DOMAIN obj \ {key} |-> obj[k]]

EmptyObject == [k \in {} |-> Null]

IsString(v) == v.t \in {"str", "text"}

\* ToBoolean(v)
Truthy(v) ==
    CASE v.t \in {"null", "nan", "undefined"} -> FALSE
      [] v.t = "num" -> v.n # 0
      [] v.t = "bool" -> v.b
      [] v.t = "str" -> Len(v.s) > 0
      [] OTHER -> TRUE

\* v == null
IsNullish(v) == v.t \in {"null", "undefined"}

Digits == <<"0", "1", "2", "3", "4", "5", "6", "7", "8", "9">>

IsDigit(c) == \E i \in 1..10 : Digits[i] = c

DigitValue(c) == (CHOOSE i \in 1..10 : Digits[i] = c) - 1

RECURSIVE FormatNat(_)
FormatNat(n) ==
    IF n < 10 THEN <<Digits[n + 1]>>
    ELSE FormatNat(n \div 10) \o <<Digits[(n % 10) + 1]>>

\* String(n) for an integer n
FormatInt(n) == IF n < 0 THEN <<"-">> \o FormatNat(-n) ELSE FormatNat(n)

RECURSIVE SkipSpaces(_)
SkipSpaces(cs) ==
    IF cs # <<>> /\ Head(cs) = " " THEN SkipSpaces(Tail(cs)) ELSE cs

RECURSIVE DigitPrefix(_)
DigitPrefix(cs) ==
    IF cs # <<>> /\ IsDigit(Head(cs))
    THEN <<Head(cs)>> \o DigitPrefix(Tail(cs))
    ELSE <<>>

RECURSIVE DigitsValue(_)
DigitsValue(ds) ==
    IF ds = <<>> THEN 0
    ELSE 10 * DigitsValue(SubSeq(ds, 1, Len(ds) - 1)) + DigitValue(ds[Len(ds)])

\* parseInt(string, 10): leading blanks, a sign, the longest run of digits
ParseInt(cs) ==
    LET t == SkipSpaces(cs)
        neg == t # <<>> /\ Head(t) = "-"
        signed == t # <<>> /\ Head(t) \in {"-", "+"}
        ds == DigitPrefix(IF signed THEN Tail(t) ELSE t)
    IN  IF ds = <<>> THEN NaN
        ELSE Num(IF neg THEN -DigitsValue(ds) ELSE DigitsValue(ds))

\* isNaN(v): whether ToNumber(v) is NaN.  getNumberOrDefault applies it to what
\* parseInt returned or to a value that is no string
IsNaN(v) ==
    CASE v.t \in {"nan", "undefined", "obj"} -> TRUE
      [] v.t \in {"num", "null", "bool"} -> FALSE
      [] OTHER -> TRUE

-----------------------------------------------------------------------------
(* JSON and query-string, as the hook uses them *)

\* The JSON document of a value: NaN becomes null, a Date its ISO string, a
\* property that is undefined is left out, the rest is kept
RECURSIVE ToJSON(_)
ToJSON(v) ==
    CASE v.t = "nan" -> Null
      [] v.t = "date" -> Str(v.iso)
      [] v.t = "list" ->
            List([i \in 1..Len(v.items) |->
                    [k \in {x \in DOMAIN v.items[i] :
                               x = "value" => v.items[i][x] # Undefined} |->
                        IF k = "value" THEN ToJSON(v.items[i][k]) ELSE v.items[i][k]]])
      [] v.t = "obj" ->
            Obj([i \in 1..Len(v.kv) |-> [k |-> v.kv[i].k, v |-> ToJSON(v.kv[i].v)]])
      [] OTHER -> v

\* JSON.stringify(v): undefined for undefined, the text of the document otherwise
JSONStringify(v) == IF v = Undefined THEN Undefined ELSE Text(ToJSON(v))

\* A JSON number literal: -?(0|[1-9][0-9]*)
IsJSONNumber(cs) ==
    LET body == IF cs # <<>> /\ Head(cs) = "-" THEN Tail(cs) ELSE cs
    IN  /\ body # <<>>
        /\ DigitPrefix(body) = body
        /\ (Len(body) = 1 \/ Head(body) # "0")

\* JSON.parse(s): [ok |-> TRUE, val |-> the value], or [ok |-> FALSE] when it throws
JSONParse(s) ==
    IF s.t = "text" THEN [ok |-> TRUE, val |-> s.doc]
    ELSE LET cs == SkipSpaces(s.s)
         IN  CASE IsJSONNumber(cs) -> [ok |-> TRUE, val |-> ParseInt(cs)]
               [] cs = <<"null">> -> [ok |-> TRUE, val |-> Null]
               [] cs = <<"true">> -> [ok |-> TRUE, val |-> Bool(TRUE)]
               [] cs = <<"false">> -> [ok |-> TRUE, val |-> Bool(FALSE)]
               [] OTHER -> [ok |-> FALSE]

\* The keys query-string's stringify writes, in its (sorted) order
KeyOrder ==
    <<"displayedFilters", "filter", "filters", "foo", "order", "page", "perPage", "sort">>

\* The string query-string writes for a value
ToQueryValue(v) ==
    CASE v.t = "null" -> Null
      [] v.t = "num" -> Str(FormatInt(v.n))
      [] v.t = "bool" -> Str(IF v.b THEN <<"true">> ELSE <<"false">>)
      [] v.t = "nan" -> Str(<<"NaN">>)
      [] v.t \in {"str", "text"} -> v
      [] OTHER -> Str(<<"[object Object]">>)

\* stringify(obj) of query-string: key=value pairs, keys sorted, undefined skipped
Stringify(obj) ==
    LET keys == SelectSeq(KeyOrder, LAMBDA k : k \in DOMAIN obj)
    IN  [i \in 1..Len(keys) |-> [k |-> keys[i], v |-> ToQueryValue(obj[keys[i]])]]

\* parse(search) of query-string: an object of strings; a repeated key gives an array
RECURSIVE Parse(_)
Parse(search) ==
    IF search = <<>> THEN EmptyObject
    ELSE LET rest == Parse(SubSeq(search, 1, Len(search) - 1))
             last == search[Len(search)]
         IN  IF last.k \in DOMAIN rest
             THEN Put(rest, last.k,
                      IF rest[last.k].t = "list"
                      THEN List(Append(rest[last.k].items, last.v))
                      ELSE List(<<rest[last.k], last.v>>))
             ELSE Put(rest, last.k, last.v)

-----------------------------------------------------------------------------
(* The resolver *)

SET_SORT == "SET_SORT"
SET_PAGE == "SET_PAGE"
SET_PER_PAGE == "SET_PER_PAGE"
SET_FILTERS == "SET_FILTERS"
HIDE_FILTER == "HIDE_FILTER"
SHOW_FILTER == "SHOW_FILTER"
SORT_ASC == Str(<<"ASC">>)
SORT_DESC == Str(<<"DESC">>)

FilterItem(field, value) == [field |-> field, operator |-> "=", value |-> value]

\* parseObject without its JSON.parse: the string is left as it came
parseObjectUnparsed(q, field) == q

parseObject(q, field) ==
    IF Truthy(Get(q, field)) /\ IsString(Get(q, field))
    THEN LET r == JSONParse(q[field])
         IN  IF r.ok THEN Put(q, field, r.val) ELSE Delete(q, field)
    ELSE q

validQueryParams ==
    {"page", "perPage", "sort", "order", "filters", "displayedFilters", "filter"}

\* Object.keys(v) of a parsed JSON value: [ok |-> FALSE] when it throws (null)
ObjectKeys(v) ==
    CASE v.t \in {"null", "undefined"} -> [ok |-> FALSE]
      [] v.t = "obj" -> [ok |-> TRUE, kv |-> v.kv]
      [] v.t = "list" ->
            [ok |-> TRUE,
             kv |-> [i \in 1..Len(v.items) |->
                        [k |-> Digits[i], v |-> v.items[i]]]]
      [] OTHER -> [ok |-> TRUE, kv |-> <<>>]

parseQueryFromLocation(search) ==
    LET parsed == Parse(search)
        picked == [k \in DOMAIN parsed \cap validQueryParams |-> parsed[k]]
        q1 == parseObject(picked, "filters")
        q2 == parseObject(q1, "displayedFilters")
    IN  IF /\ ~Truthy(Get(q2, "filters"))
           /\ Truthy(Get(q2, "filter"))
           /\ IsString(Get(q2, "filter"))
        THEN LET r == JSONParse(q2["filter"])
                 keys == IF r.ok THEN ObjectKeys(r.val) ELSE [ok |-> FALSE]
                 q3 == IF keys.ok
                       THEN Put(q2, "filters",
                                List([i \in 1..Len(keys.kv) |->
                                        FilterItem(keys.kv[i].k, keys.kv[i].v)]))
                       ELSE q2
             IN  Delete(q3, "filter")
        ELSE q2

\* v.length > 0
HasLength(v) ==
    CASE v.t = "list" -> Len(v.items) > 0
      [] v.t = "str" -> Len(v.s) > 0
      [] v.t = "text" -> TRUE
      [] OTHER -> FALSE

\* hasCustomParams without its test of page
hasCustomParamsNoPage(p) ==
    /\ p # <<>>
    /\ \/ (Truthy(Get(p[1], "filters")) /\ HasLength(Get(p[1], "filters")))
       \/ ~IsNullish(Get(p[1], "order"))
       \/ ~IsNullish(Get(p[1], "perPage"))
       \/ ~IsNullish(Get(p[1], "sort"))

\* params is <<>> (undefined) or <<p>>
\* hasCustomParams that finds no stored params customized
hasCustomParamsNever(p) == FALSE

hasCustomParams(p) ==
    /\ p # <<>>
    /\ \/ (Truthy(Get(p[1], "filters")) /\ HasLength(Get(p[1], "filters")))
       \/ ~IsNullish(Get(p[1], "order"))
       \/ Get(p[1], "page") # Num(1)
       \/ ~IsNullish(Get(p[1], "perPage"))
       \/ ~IsNullish(Get(p[1], "sort"))

\* getNumberOrDefault without the parseInt of strings
getNumberOrDefaultUnparsed(possibleNumber, defaultValue) ==
    IF IsNaN(possibleNumber) THEN defaultValue ELSE possibleNumber

getNumberOrDefault(possibleNumber, defaultValue) ==
    LET parsedNumber ==
            IF possibleNumber.t = "str" THEN ParseInt(possibleNumber.s)
            ELSE IF possibleNumber.t = "text" THEN NaN
            ELSE possibleNumber
    IN  IF IsNaN(parsedNumber) THEN defaultValue ELSE parsedNumber

\* filterDefaultValues || []
DefaultBase(filterDefaultValues) ==
    [filters |-> IF Truthy(filterDefaultValues) THEN filterDefaultValues ELSE List(<<>>)]

\* getQuery preferring the stored params to the URL query
QueryBaseStoredFirst(qfl, p, filterDefaultValues) ==
    IF hasCustomParams(p) THEN p[1]
    ELSE IF Cardinality(DOMAIN qfl) > 0 THEN qfl
    ELSE DefaultBase(filterDefaultValues)

\* The base getQuery starts from
QueryBase(qfl, p, filterDefaultValues) ==
    IF Cardinality(DOMAIN qfl) > 0 THEN qfl
    ELSE IF hasCustomParams(p) THEN p[1]
    ELSE DefaultBase(filterDefaultValues)

\* The default sort field injected without the default order
WithSortFieldOnly(q, sort) ==
    IF ~Truthy(Get(q, "sort")) THEN Put(q, "sort", sort.field) ELSE q

\* if (!query.sort) { query.sort = sort.field; query.order = sort.order }
WithSort(q, sort) ==
    IF ~Truthy(Get(q, "sort"))
    THEN Put(Put(q, "sort", sort.field), "order", sort.order)
    ELSE q

\* if (query.perPage == null) query.perPage = perPage
WithPerPage(q, perPage) ==
    IF IsNullish(Get(q, "perPage")) THEN Put(q, "perPage", perPage) ELSE q

\* if (query.page == null) query.page = 1
WithPage(q) ==
    IF IsNullish(Get(q, "page")) THEN Put(q, "page", Num(1)) ELSE q

getQuery(qfl, p, filterDefaultValues, sort, perPage) ==
    LET q == WithPage(WithPerPage(WithSort(
                 QueryBase(qfl, p, filterDefaultValues), sort), perPage))
    IN  Put(Put(q, "page", getNumberOrDefault(q["page"], Num(1))),
            "perPage", getNumberOrDefault(q["perPage"], Num(10)))

-----------------------------------------------------------------------------
(* The reducer (queryReducer) and removeEmpty *)

\* The filters of a parameter set as a sequence of items; none when it holds no array
FilterItems(q) ==
    IF Get(q, "filters").t = "list" THEN q["filters"].items ELSE <<>>

\* The displayedFilters of a parameter set as key/value pairs
DisplayedPairs(q) ==
    IF Get(q, "displayedFilters").t = "obj" THEN q["displayedFilters"].kv ELSE <<>>

oppositeOrder(order) == IF order = SORT_DESC THEN SORT_ASC ELSE SORT_DESC

queryReducer(previousState, action) ==
    CASE action.type = SET_SORT ->
            IF action.payload.sort = Get(previousState, "sort")
            THEN Put(previousState, "order", oppositeOrder(Get(previousState, "order")))
            ELSE Put(Put(previousState, "sort", action.payload.sort), "order",
                     IF Truthy(action.payload.order) THEN action.payload.order ELSE SORT_ASC)
      [] action.type = SET_PAGE ->
            Put(previousState, "page", action.payload)
      [] action.type = SET_PER_PAGE ->
            Put(Put(previousState, "page", Num(1)), "perPage", action.payload)
      [] action.type = SET_FILTERS ->
            Put(Put(Put(previousState, "page", Num(1)),
                    "filters", action.payload.filters),
                "displayedFilters", action.payload.displayedFilters)
      [] action.type = HIDE_FILTER ->
            Put(Put(previousState, "filters",
                    List(SelectSeq(FilterItems(previousState),
                                   LAMBDA f : f.field # action.payload.filterName))),
                "displayedFilters",
                Obj(SelectSeq(DisplayedPairs(previousState),
                              LAMBDA d : d.k # action.payload.filterName)))
      [] action.type = SHOW_FILTER ->
            LET name == action.payload.filterName
                shown == \E i \in 1..Len(DisplayedPairs(previousState)) :
                            DisplayedPairs(previousState)[i].k = name
                valued == \E i \in 1..Len(FilterItems(previousState)) :
                            FilterItems(previousState)[i].field = name
            IN  Put(Put(previousState, "filters",
                        List(IF valued \/ action.payload.defaultValue = Undefined
                             THEN FilterItems(previousState)
                             ELSE Append(FilterItems(previousState),
                                         FilterItem(name, action.payload.defaultValue)))),
                    "displayedFilters",
                    Obj(IF shown THEN DisplayedPairs(previousState)
                        ELSE Append(DisplayedPairs(previousState),
                                    [k |-> name, v |-> Bool(TRUE)])))
      [] OTHER -> previousState

\* removeEmpty(filters): the items whose value is empty are left out
removeEmpty(filters) ==
    SelectSeq(filters, LAMBDA f : ~(Get(f, "value") \in {Undefined, Null, Str(<<>>)}))

-----------------------------------------------------------------------------
(* The hook: render, the location effect, changeParams and its flush *)

\* filterDefaultValues as getQuery receives it (an object becomes "=" items)
FilterDefaults(fdv) ==
    IF ~Truthy(fdv) THEN fdv
    ELSE IF fdv.t = "list" THEN fdv
    ELSE List([i \in 1..Len(fdv.kv) |-> FilterItem(fdv.kv[i].k, fdv.kv[i].v)])

\* queryFromLocation parsed from the URL whatever disableSyncWithLocation is
RenderQueryFromLocationParsed(o, search) == parseQueryFromLocation(search)

\* const queryFromLocation = disableSyncWithLocation ? {} : parseQueryFromLocation(location)
RenderQueryFromLocation(o, search) ==
    IF o.disableSyncWithLocation THEN EmptyObject ELSE parseQueryFromLocation(search)

\* const query = useMemo(() => getQuery({...}), requestSignature)
RenderQuery(o, search, stored, local) ==
    getQuery(RenderQueryFromLocation(o, search),
             IF o.disableSyncWithLocation THEN local ELSE stored,
             FilterDefaults(o.filterDefaultValues), o.sort, o.perPage)

\* A render of the hook.  Each state change (a new location.search, store
\* params or local params) changes requestSignature, so the render makes new
\* callbacks and a new debounced function: the timers armed through the old
\* ones stay armed, and calls through the new ones no longer reset them.
Render ==
    /\ phase = "render"
    /\ queryFromLocation' = RenderQueryFromLocation(opts, location)
    /\ query' = RenderQuery(opts, location, params, localParams)
    /\ debounceTimers' =
          [i \in 1..Len(debounceTimers) |-> [debounceTimers[i] EXCEPT !.current = FALSE]]
    /\ phase' = IF effectSearch # <<location>> THEN "effect" ELSE "idle"
    /\ UNCHANGED <<opts, location, params, localParams, tempParams, flushTimers,
                   effectSearch, budget, batch, flushed, counts>>

\* The location effect dispatching whatever the URL query is
EffectDispatchesAlways(qfl) == TRUE

\* useEffect(() => { if (Object.keys(queryFromLocation).length > 0)
\*     dispatch(changeListParams(resource, query)) }, [location.search])
EffectDispatches(qfl) == Cardinality(DOMAIN qfl) > 0

LocationEffect ==
    /\ phase = "effect"
    /\ effectSearch' = <<location>>
    /\ params' = IF EffectDispatches(queryFromLocation) THEN <<query>> ELSE params
    /\ phase' = IF params' # params THEN "render" ELSE "idle"
    /\ UNCHANGED <<opts, location, localParams, tempParams, flushTimers,
                   debounceTimers, queryFromLocation, query, budget, batch,
                   flushed, counts>>

\* changeParams that starts from the resolved query on every call
changeParamsTempRestart(temp, q, action) == <<queryReducer(q, action)>>

\* tempParams.current after changeParams(action), called through a closure over query q
changeParamsTemp(temp, q, action) ==
    IF temp = <<>> THEN <<queryReducer(q, action)>>
    ELSE <<queryReducer(temp[1], action)>>

\* changeParams scheduling a flush on every call
changeParamsTimersEveryCall(temp, timers, action) ==
    Append(timers, [action |-> action])

\* changeParams whose scheduled flush sees the last action of the batch
changeParamsTimersLastAction(temp, timers, action) ==
    IF temp = <<>> THEN Append(timers, [action |-> action])
    ELSE [i \in 1..Len(timers) |-> [action |-> action]]

\* changeParams that schedules no flush
changeParamsTimersNever(temp, timers, action) == timers

\* The scheduled flushes after changeParams(action): setTimeout only when no batch is open
changeParamsTimers(temp, timers, action) ==
    IF temp = <<>> THEN Append(timers, [action |-> action]) ELSE timers

\* changeParams(action) through a closure made by the render whose query was q
ChangeParams(q, action) ==
    /\ tempParams' = changeParamsTemp(tempParams, q, action)
    /\ flushTimers' = changeParamsTimers(tempParams, flushTimers, action)
    /\ batch' = IF tempParams = <<>>
                THEN [base |-> query, log |-> <<action>>]
                ELSE [batch EXCEPT !.log = Append(@, action)]
    /\ counts' = IF tempParams = <<>>
                 THEN [counts EXCEPT !.opened = @ + 1]
                 ELSE counts

\* A call of a mutator of the last render by the consumer
Call(action) ==
    /\ phase = "idle"
    /\ budget > 0
    /\ budget' = budget - 1
    /\ ChangeParams(query, action)
    /\ UNCHANGED <<opts, location, params, localParams, debounceTimers,
                   queryFromLocation, query, effectSearch, phase, flushed>>

\* The consumer's inputs
PageInputs == {2, 5}
PerPageInputs == {25}
SortInputs == {[sort |-> Str(<<"name">>), order |-> Undefined]}
FilterInputs == {<<>>,
                 <<FilterItem("title", Str(<<"x">>)), FilterItem("author", Str(<<>>))>>}
FilterNames == {"title"}
DefaultValueInputs == {Str(<<"x">>), Date(<<"2021-01-01">>)}
DisplayedFor(filters) ==
    Obj([i \in 1..Len(filters) |-> [k |-> filters[i].field, v |-> Bool(TRUE)]])

setPage(newPage) == Call([type |-> SET_PAGE, payload |-> Num(newPage)])

setPerPage(newPerPage) == Call([type |-> SET_PER_PAGE, payload |-> Num(newPerPage)])

setSort(sort, order) ==
    Call([type |-> SET_SORT, payload |-> [sort |-> sort, order |-> order]])

hideFilter(filterName) ==
    Call([type |-> HIDE_FILTER, payload |-> [filterName |-> filterName]])

showFilter(filterName, defaultValue) ==
    Call([type |-> SHOW_FILTER,
          payload |-> [filterName |-> filterName, defaultValue |-> defaultValue]])

\* The action both paths of setFilters hand to changeParams
SetFiltersAction(filters, displayedFilters) ==
    [type |-> SET_FILTERS,
     payload |-> [filters |-> List(removeEmpty(filters)),
                  displayedFilters |-> displayedFilters]]

\* setFilters(filters, displayedFilters, false) that defers the call as well
setFiltersNowDeferred(filters, displayedFilters) ==
    /\ phase = "idle"
    /\ budget > 0
    /\ budget' = budget - 1
    /\ debounceTimers' =
          Append(debounceTimers,
                 [q |-> query, filters |-> filters,
                  displayedFilters |-> displayedFilters, current |-> FALSE])
    /\ UNCHANGED <<opts, location, params, localParams, tempParams, flushTimers,
                   queryFromLocation, query, effectSearch, phase, batch,
                   flushed, counts>>

\* setFilters(filters, displayedFilters, false)
setFiltersNow(filters, displayedFilters) ==
    Call(SetFiltersAction(filters, displayedFilters))

\* debouncedSetFilters(filters, displayedFilters): lodash's debounce re-arms the
\* timer of this debounced function with the new arguments, or arms one
ArmDebounce(timers, q, filters, displayedFilters) ==
    LET armed == [q |-> q, filters |-> filters,
                  displayedFilters |-> displayedFilters, current |-> TRUE]
    IN  IF \E i \in 1..Len(timers) : timers[i].current
        THEN [i \in 1..Len(timers) |-> IF timers[i].current THEN armed ELSE timers[i]]
        ELSE Append(timers, armed)

\* setFilters(filters, displayedFilters) with debounce = true, the default
setFiltersDebounced(filters, displayedFilters) ==
    /\ phase = "idle"
    /\ budget > 0
    /\ budget' = budget - 1
    /\ debounceTimers' = ArmDebounce(debounceTimers, query, filters, displayedFilters)
    /\ UNCHANGED <<opts, location, params, localParams, tempParams, flushTimers,
                   queryFromLocation, query, effectSearch, phase, batch,
                   flushed, counts>>

\* A debounce timer fires: the debounced function calls the changeParams it
\* closed over.  The hook never cancels the timer, so it also fires after unmount
DebounceFire(i) ==
    /\ phase \in {"idle", "unmounted"}
    /\ i \in 1..Len(debounceTimers)
    /\ ChangeParams(debounceTimers[i].q,
                    SetFiltersAction(debounceTimers[i].filters,
                                     debounceTimers[i].displayedFilters))
    /\ debounceTimers' =
          [j \in 1..(Len(debounceTimers) - 1) |->
              IF j < i THEN debounceTimers[j] ELSE debounceTimers[j + 1]]
    /\ UNCHANGED <<opts, location, params, localParams, queryFromLocation,
                   query, effectSearch, phase, budget, flushed>>

\* A flush that hands the params to stringify as they are
FlushSearchRaw(p) == Stringify(p)

\* The search the flush navigates to
FlushSearch(p) ==
    Stringify(Put(Put(p, "filters", JSONStringify(Get(p, "filters"))),
                  "displayedFilters", JSONStringify(Get(p, "displayedFilters"))))

\* state: { _scrollToTop: action.type === SET_PAGE }, action being the one the timer closed over
ScrollToTop(timer) == timer.action.type = SET_PAGE

\* What React does after a state change or a navigation: nothing once the
\* component is unmounted
AfterChange(next) == IF phase = "unmounted" THEN "unmounted" ELSE next

\* The setTimeout callback of changeParams.  The hook never clears the timeout,
\* so it also runs after unmount (setLocalParams is then called to no effect)
Flush ==
    /\ phase \in {"idle", "unmounted"}
    /\ flushTimers # <<>>
    /\ flushTimers' = Tail(flushTimers)
    /\ tempParams' = <<>>
    /\ IF opts.disableSyncWithLocation
       THEN /\ localParams' = tempParams
            /\ phase' = AfterChange("render")
            /\ counts' = [counts EXCEPT !.commit = @ + 1]
            /\ flushed' = <<[kind |-> "commit", value |-> tempParams, search |-> <<>>,
                             scrollToTop |-> FALSE, base |-> batch.base,
                             log |-> batch.log]>>
            /\ UNCHANGED location
       ELSE IF tempParams = <<>>
       THEN \* tempParams.current.filters throws: nothing is navigated to
            UNCHANGED <<location, localParams, phase, counts, flushed>>
       ELSE /\ location' = FlushSearch(tempParams[1])
            /\ phase' = AfterChange(IF location' # location THEN "render" ELSE "idle")
            /\ counts' = [counts EXCEPT !.navigate = @ + 1]
            /\ flushed' = <<[kind |-> "navigate", value |-> tempParams,
                             search |-> location',
                             scrollToTop |-> ScrollToTop(Head(flushTimers)),
                             base |-> batch.base, log |-> batch.log]>>
            /\ UNCHANGED localParams
    /\ UNCHANGED <<opts, params, debounceTimers, queryFromLocation, query,
                   effectSearch, budget, batch>>

\* The links the user follows to the list: back to it with no query, with a
\* query of the list, or with one that is not the list's
Links ==
    {<<>>,
     <<[k |-> "filter", v |-> Text(Obj(<<[k |-> "published", v |-> Bool(TRUE)]>>))]>>,
     <<[k |-> "foo", v |-> Str(<<"bar">>)]>>}

\* The router changes location.search (a link, the back button)
LocationChange(search) ==
    /\ phase = "idle"
    /\ budget > 0
    /\ search # location
    /\ budget' = budget - 1
    /\ location' = search
    /\ phase' = "render"
    /\ UNCHANGED <<opts, params, localParams, tempParams, flushTimers,
                   debounceTimers, queryFromLocation, query, effectSearch,
                   batch, flushed, counts>>

\* The list is left: the component that uses the hook unmounts.  The hook
\* has no cleanup, so its timers stay scheduled
Unmount ==
    /\ phase = "idle"
    /\ phase' = "unmounted"
    /\ UNCHANGED <<opts, location, params, localParams, tempParams, flushTimers,
                   debounceTimers, queryFromLocation, query, effectSearch,
                   budget, batch, flushed, counts>>

-----------------------------------------------------------------------------
(* The hook in use *)

MaxCalls == 3

defaultSort == [field |-> Str(<<"id">>), order |-> SORT_ASC]

\* The store's params before any list was shown
NeutralParams ==
    [filters |-> List(<<>>), order |-> Null, page |-> Num(1), perPage |-> Null,
     sort |-> Null]

Options(disableSyncWithLocation, perPage, filterDefaultValues) ==
    [disableSyncWithLocation |-> disableSyncWithLocation, sort |-> defaultSort,
     perPage |-> perPage, filterDefaultValues |-> filterDefaultValues]

NoHistory ==
    /\ batch = [base |-> EmptyObject, log |-> <<>>]
    /\ flushed = <<>>
    /\ counts = [opened |-> 0, navigate |-> 0, commit |-> 0]

Init ==
    /\ opts \in {Options(d, Num(10), Undefined) : d \in BOOLEAN}
    /\ location = <<>>
    /\ params = <<NeutralParams>>
    /\ localParams = <<>>
    /\ tempParams = <<>>
    /\ flushTimers = <<>>
    /\ debounceTimers = <<>>
    /\ queryFromLocation = EmptyObject
    /\ query = EmptyObject
    /\ effectSearch = <<>>
    /\ phase = "render"
    /\ budget = MaxCalls
    /\ NoHistory

Next ==
    \/ Render
    \/ LocationEffect
    \/ \E p \in PageInputs : setPage(p)
    \/ \E p \in PerPageInputs : setPerPage(p)
    \/ \E s \in SortInputs : setSort(s.sort, s.order)
    \/ \E n \in FilterNames : hideFilter(n)
    \/ \E n \in FilterNames, v \in DefaultValueInputs : showFilter(n, v)
    \/ \E f \in FilterInputs : setFiltersNow(f, DisplayedFor(f))
    \/ \E f \in FilterInputs : setFiltersDebounced(f, DisplayedFor(f))
    \/ \E i \in 1..Len(debounceTimers) : DebounceFire(i)
    \/ Flush
    \/ \E l \in Links : LocationChange(l)
    \/ Unmount

Spec == Init /\ [][Next]_vars

\* A Render step and a LocationEffect step, seen on phase alone: under Next
\* no other step leaves phase "render" or phase "effect"
RenderDone == phase = "render" /\ phase' \in {"effect", "idle"}

LocationEffectDone == phase = "effect" /\ phase' \in {"render", "idle"}

\* The event loop runs every setTimeout callback that is due, and React does
\* the renders and effects it has scheduled
MaxFairCalls == 2

InitFair ==
    /\ opts \in {Options(d, Num(10), Undefined) : d \in BOOLEAN}
    /\ location = <<>>
    /\ params = <<NeutralParams>>
    /\ localParams = <<>>
    /\ tempParams = <<>>
    /\ flushTimers = <<>>
    /\ debounceTimers = <<>>
    /\ queryFromLocation = EmptyObject
    /\ query = EmptyObject
    /\ effectSearch = <<>>
    /\ phase = "render"
    /\ budget = MaxFairCalls
    /\ NoHistory

SpecFair ==
    /\ InitFair
    /\ [][Next]_vars
    /\ WF_vars(Flush)
    /\ WF_phase(RenderDone)
    /\ WF_phase(LocationEffectDone)

-----------------------------------------------------------------------------
(* The resolver on its own: one render (and its location effect) for every  *)
(* combination of URL query, stored params and options drawn below          *)

MaxUrlKeys == 3

TitleFilter == FilterItem("title", Str(<<"x">>))

\* The values each key of the URL query is given
UrlValues ==
    [page |-> <<Str(<<"0">>), Str(<<"-", "5">>), Str(<<"3">>), Str(<<"abc">>)>>,
     perPage |-> <<Str(<<"2", "5">>), Str(<<"x">>), Str(<<>>), Str(<<"7", "px">>)>>,
     sort |-> <<Str(<<"name">>), Str(<<>>)>>,
     order |-> <<SORT_DESC>>,
     filters |-> <<Text(List(<<TitleFilter>>)), Str(<<"{", "bad">>), Str(<<>>)>>,
     displayedFilters |-> <<Text(Obj(<<[k |-> "title", v |-> Bool(TRUE)]>>)),
                            Str(<<"{", "bad">>)>>,
     filter |-> <<Text(Obj(<<[k |-> "published", v |-> Bool(TRUE)]>>)),
                  Str(<<"{", "bad">>), Str(<<>>)>>,
     foo |-> <<Str(<<"bar">>)>>]

\* The search with the keys of choice, each with the value choice picks
SearchOf(choice) ==
    LET keys == SelectSeq(KeyOrder, LAMBDA k : k \in DOMAIN choice)
    IN  [i \in 1..Len(keys) |-> [k |-> keys[i], v |-> UrlValues[keys[i]][choice[keys[i]]]]]

ResolveSearches ==
    {SearchOf(choice) :
        choice \in UNION {{c \in [keys -> 1..4] :
                              \A k \in keys : c[k] <= Len(UrlValues[k])} :
                          keys \in {ks \in SUBSET DOMAIN UrlValues :
                                       Cardinality(ks) <= MaxUrlKeys}}}

\* The scenario of the hook's documentation: page 3, sorted by name, 25 per page
CustomParams ==
    [filters |-> List(<<>>), order |-> SORT_ASC, page |-> Num(3), perPage |-> Num(25),
     sort |-> Str(<<"name">>)]

\* undefined, the neutral params, the neutral params with one field changed, ...
ResolveStored ==
    {<<>>, <<NeutralParams>>, <<CustomParams>>,
     <<[NeutralParams EXCEPT !.filters = List(<<TitleFilter>>)]>>,
     <<[NeutralParams EXCEPT !.order = SORT_DESC]>>,
     <<[NeutralParams EXCEPT !.page = Num(2)]>>,
     <<[NeutralParams EXCEPT !.page = Num(0)]>>,
     <<[NeutralParams EXCEPT !.perPage = Num(25)]>>,
     <<[NeutralParams EXCEPT !.sort = Str(<<"name">>)]>>}

ResolveOptions ==
    {Options(FALSE, Num(10), Undefined),
     Options(FALSE, Num(25), Obj(<<[k |-> "published", v |-> Bool(TRUE)]>>)),
     Options(TRUE, Num(25), List(<<TitleFilter>>))}

InitResolve ==
    /\ opts \in ResolveOptions
    /\ location \in ResolveSearches
    /\ \E stored \in ResolveStored :
          IF opts.disableSyncWithLocation
          THEN params = <<NeutralParams>> /\ localParams = stored
          ELSE params = stored /\ localParams = <<>>
    /\ tempParams = <<>>
    /\ flushTimers = <<>>
    /\ debounceTimers = <<>>
    /\ queryFromLocation = EmptyObject
    /\ query = EmptyObject
    /\ effectSearch = <<>>
    /\ phase = "render"
    /\ budget = 0
    /\ NoHistory

NextResolve == Render \/ LocationEffect

SpecResolve == InitResolve /\ [][NextResolve]_vars

-----------------------------------------------------------------------------
(* Properties *)

\* The last render's query is the one of the present location, store and local state
Fresh == phase \in {"effect", "idle"}

\* The params getQuery is given
StoredInUse == IF opts.disableSyncWithLocation THEN localParams ELSE params

\* The keys of the URL query
SearchKeys == {location[i].k : i \in 1..Len(location)}

\* The value of a key of the URL query that is given once
SearchValue(key) == location[CHOOSE i \in 1..Len(location) : location[i].k = key].v

\* The actions of a batch applied in call order
RECURSIVE ApplyAll(_, _)
ApplyAll(q, log) ==
    IF log = <<>> THEN q ELSE ApplyAll(queryReducer(q, Head(log)), Tail(log))

\* C1: every batch has exactly one flush: while calls accumulate one timer is
\* scheduled however many calls were made, each opened batch is flushed once
\* (or is about to be), by one navigate call when URL sync is enabled and by
\* one local-state commit when it is disabled.
C1_OneFlushPerTick ==
    /\ tempParams # <<>> => Len(batch.log) >= 1 /\ Len(flushTimers) = 1
    /\ tempParams = <<>> => flushTimers = <<>>
    /\ counts.opened = counts.navigate + counts.commit + Len(flushTimers)
    /\ IF opts.disableSyncWithLocation
       THEN counts.navigate = 0
       ELSE counts.commit = 0

C1_Witness ==
    /\ flushed # <<>>
    /\ Len(flushed[1].log) >= 2
    /\ counts.opened = 1
    /\ counts.navigate = 1
    /\ flushTimers = <<>>

\* C2: the flush writes the actions of the batch applied in call order to
\* the parameters that were resolved when the batch opened.
C2_FlushAppliesAllInOrder ==
    flushed # <<>> =>
        flushed[1].value = <<ApplyAll(flushed[1].base, flushed[1].log)>>

\* A params object differs from the neutral { filters: [], order: null, page: 1,
\* perPage: null, sort: null } in at least one field
NonNeutralFields(p) ==
    {k \in {"filters", "order", "page", "perPage", "sort"} :
        CASE k = "filters" -> Get(p, k).t = "list" /\ Len(p[k].items) > 0
          [] k = "page" -> Get(p, k) # Num(1)
          [] OTHER -> Get(p, k) \notin {Null, Undefined}}

ParamKeys == {"page", "perPage", "sort", "order"}

\* C3: getQuery takes its base by strict priority: the parsed URL query when
\* it has a recognized key (nothing of the stored params or the default
\* filters shows in the result), else the stored params when they are
\* customized (the default filters do not show), else { filters:
\* filterDefaultValues or [] }; stored params of page 3, sort name, order ASC,
\* perPage 25, filters [] and an empty URL query resolve to the stored params.
C3_BasePriority ==
    Fresh =>
        LET fromUrl == Cardinality(DOMAIN queryFromLocation) > 0
            fromStored == /\ ~fromUrl
                          /\ StoredInUse # <<>>
                          /\ NonNeutralFields(StoredInUse[1]) # {}
            base == IF fromUrl THEN queryFromLocation
                    ELSE IF fromStored THEN StoredInUse[1]
                    ELSE [filters |->
                            IF opts.filterDefaultValues = Undefined THEN List(<<>>)
                            ELSE FilterDefaults(opts.filterDefaultValues)]
        IN  /\ DOMAIN query \subseteq DOMAIN base \cup ParamKeys
            /\ DOMAIN base \subseteq DOMAIN query
            /\ \A k \in DOMAIN base \ ParamKeys : query[k] = base[k]
            /\ \A k \in {"page", "perPage"} :
                  Get(base, k).t = "num" => query[k] = base[k]
            /\ Truthy(Get(base, "sort")) =>
                  query["sort"] = base["sort"] /\ Get(query, "order") = Get(base, "order")
            /\ (~fromUrl /\ StoredInUse = <<CustomParams>>) => query = CustomParams

C3_Witness ==
    /\ Fresh
    /\ location = <<>>
    /\ params = <<CustomParams>>
    /\ ~opts.disableSyncWithLocation
    /\ opts.filterDefaultValues # Undefined
    /\ query = CustomParams

\* C4: every resolved query has an integer page >= 1 and perPage >= 1.
C4_PagePositive ==
    Fresh =>
        /\ query["page"].t = "num" /\ query["page"].n >= 1
        /\ query["perPage"].t = "num" /\ query["perPage"].n >= 1

\* A valid ParameterSet: positive page and perPage, a sort field, an order, filters
ValidParameterSet(p) ==
    /\ Get(p, "page").t = "num" /\ p["page"].n >= 1
    /\ Get(p, "perPage").t = "num" /\ p["perPage"].n >= 1
    /\ Get(p, "sort").t = "str" /\ Len(p["sort"].s) > 0
    /\ Get(p, "order") \in {SORT_ASC, SORT_DESC}
    /\ Get(p, "filters").t = "list"

\* The render that follows a flush's navigation has happened
ResolvedAfterNavigate ==
    /\ Fresh
    /\ flushed # <<>>
    /\ flushed[1].kind = "navigate"
    /\ location = flushed[1].search

\* The filter values of p are JSON values: strings, numbers, booleans, null
JSONFilterValues(p) ==
    \A i \in 1..Len(FilterItems(p)) :
        Get(FilterItems(p)[i], "value").t \in {"str", "num", "bool", "null"}

\* C5 as stated: a valid ParameterSet that a flush serializes into the URL
\* is resolved back (parseQueryFromLocation, then getQuery) with the same
\* page, perPage, sort, order and filters.
C5_RoundTrip ==
    (ResolvedAfterNavigate /\ ValidParameterSet(flushed[1].value[1])) =>
        \A k \in {"page", "perPage", "sort", "order", "filters"} :
            Get(query, k) = flushed[1].value[1][k]

\* C5, amended: a valid ParameterSet whose filter values are JSON values is
\* resolved back from the URL a flush serializes it into with the same page,
\* perPage, sort, order and filters.
C5_RoundTripOfJSONValues ==
    (/\ ResolvedAfterNavigate
     /\ ValidParameterSet(flushed[1].value[1])
     /\ JSONFilterValues(flushed[1].value[1])) =>
        \A k \in {"page", "perPage", "sort", "order", "filters"} :
            Get(query, k) = flushed[1].value[1][k]

C5_Witness ==
    /\ ResolvedAfterNavigate
    /\ ValidParameterSet(flushed[1].value[1])
    /\ JSONFilterValues(flushed[1].value[1])
    /\ flushed[1].value[1]["page"] = Num(5)
    /\ flushed[1].value[1]["filters"] = List(<<TitleFilter>>)
    /\ query["page"] = Num(5)

\* C6: a URL query with the legacy filter key (here: one that holds a JSON
\* object) resolves to a query without it, also when the URL has filters too.
C6_LegacyFilterDiscarded ==
    (/\ Fresh
     /\ ~opts.disableSyncWithLocation
     /\ "filter" \in SearchKeys
     /\ SearchValue("filter").t = "text") =>
        /\ "filter" \notin DOMAIN queryFromLocation
        /\ "filter" \notin DOMAIN query

\* C7: whatever the base, a base without a sort gets the default sort field
\* and order, a base without perPage the default perPage, a base without page
\* page 1; the other fields of the result are those of the base.
C7_DefaultsFilledIn ==
    Fresh =>
        LET base == QueryBase(queryFromLocation, StoredInUse,
                              FilterDefaults(opts.filterDefaultValues))
        IN  /\ Get(base, "sort") \in {Undefined, Null} =>
                  query["sort"] = opts.sort.field /\ query["order"] = opts.sort.order
            /\ Get(base, "perPage") \in {Undefined, Null} =>
                  query["perPage"] = opts.perPage
            /\ Get(base, "page") \in {Undefined, Null} => query["page"] = Num(1)
            /\ \A k \in DOMAIN query :
                  \/ Get(base, k) = query[k]
                  \/ k \in {"sort", "order"} /\ ~Truthy(Get(base, "sort"))
                  \/ k \in {"page", "perPage"}
                        /\ (Get(base, k) \in {Undefined, Null} \/ Get(base, k).t # "num")

C7_Witness ==
    /\ Fresh
    /\ "order" \in DOMAIN queryFromLocation
    /\ "sort" \notin DOMAIN queryFromLocation
    /\ queryFromLocation["order"] = SORT_DESC
    /\ query["order"] = SORT_ASC
    /\ query["perPage"] = Num(25)
    /\ query["page"] = Num(1)

\* A string that JSON.parse rejects
Malformed(v) == v.t \in {"str", "text"} /\ ~JSONParse(v).ok

\* C8: a filters, displayedFilters or legacy filter value of the URL that is
\* not valid JSON is absent from the parsed query, no filters are derived
\* from a malformed legacy filter, and the resolution is the one of the URL
\* without that key.
C8_MalformedDropped ==
    (Fresh /\ ~opts.disableSyncWithLocation) =>
        /\ \A k \in {"filters", "displayedFilters", "filter"} :
              (k \in SearchKeys /\ Malformed(SearchValue(k))) =>
                  k \notin DOMAIN queryFromLocation
        /\ ("filter" \in SearchKeys /\ Malformed(SearchValue("filter"))
                /\ "filters" \notin SearchKeys) =>
              "filters" \notin DOMAIN queryFromLocation

\* C9: hasCustomParams is false for the neutral params and true exactly when
\* filters is non-empty, or order is set, or page is not 1, or perPage is set,
\* or sort is set.
C9_HasCustomParams ==
    (Fresh /\ StoredInUse # <<>>) =>
        /\ hasCustomParams(StoredInUse) <=> NonNeutralFields(StoredInUse[1]) # {}
        /\ StoredInUse = <<NeutralParams>> => ~hasCustomParams(StoredInUse)
        /\ (location = <<>> /\ Get(StoredInUse[1], "page").t = "num"
                /\ StoredInUse[1]["page"].n > 1) =>
              query["page"] = StoredInUse[1]["page"]

C9_Witness ==
    /\ Fresh
    /\ location = <<>>
    /\ params = <<[NeutralParams EXCEPT !.page = Num(2)]>>
    /\ ~opts.disableSyncWithLocation
    /\ hasCustomParams(params)
    /\ query["page"] = Num(2)

\* C10: the navigation of a flush carries _scrollToTop = true exactly when
\* the first action of its batch was a SET_PAGE, whatever the later ones were.
C10_ScrollToTopFirstAction ==
    (flushed # <<>> /\ flushed[1].kind = "navigate") =>
        (flushed[1].scrollToTop <=> flushed[1].log[1].type = SET_PAGE)

C10_Witness ==
    /\ flushed # <<>>
    /\ flushed[1].kind = "navigate"
    /\ Len(flushed[1].log) = 2
    /\ flushed[1].log[1].type = SET_SORT
    /\ flushed[1].log[2].type = SET_PAGE
    /\ ~flushed[1].scrollToTop

\* search is the query string of p: every defined field of p once, filters and
\* displayedFilters as their JSON text, the other fields as their string
SerializedPending(p, search) ==
    /\ {search[i].k : i \in 1..Len(search)} = {k \in DOMAIN p : p[k] # Undefined}
    /\ \A i, j \in 1..Len(search) : search[i].k = search[j].k => i = j
    /\ \A i \in 1..Len(search) :
          search[i].v = IF search[i].k \in {"filters", "displayedFilters"}
                        THEN Text(ToJSON(p[search[i].k]))
                        ELSE ToQueryValue(p[search[i].k])

\* C11: a flush clears the pending params and does one of two things: with
\* URL sync disabled it commits the pending params to local state and does
\* not navigate; with URL sync enabled it navigates once, to the query string
\* of the pending params, and does not write local state.
C11_FlushEffect ==
    [][Flush =>
          /\ tempParams # <<>>
          /\ tempParams' = <<>>
          /\ IF opts.disableSyncWithLocation
             THEN /\ localParams' = tempParams
                  /\ location' = location
                  /\ counts'.navigate = counts.navigate
                  /\ counts'.commit = counts.commit + 1
             ELSE /\ localParams' = localParams
                  /\ counts'.navigate = counts.navigate + 1
                  /\ counts'.commit = counts.commit
                  /\ SerializedPending(tempParams[1], location')]_vars

C11_Witness ==
    /\ flushed # <<>>
    /\ flushed[1].kind = "commit"
    /\ localParams = flushed[1].value
    /\ Get(localParams[1], "perPage") = Num(25)
    /\ tempParams = <<>>
    /\ counts.commit = 1
    /\ counts.navigate = 0
    /\ location = <<>>

\* C12: a debounced setFilters called while the timer of an earlier one is
\* still armed supersedes it, whatever happened in between: at most one
\* debounce timer is armed, so only the last call's filters reach changeParams.
C12_DebounceSupersedes == Len(debounceTimers) <= 1

\* A numeric string: an optional sign and digits, nothing else
NumericString(v) ==
    /\ v.t = "str"
    /\ LET body == IF v.s # <<>> /\ Head(v.s) \in {"-", "+"} THEN Tail(v.s) ELSE v.s
       IN  body # <<>> /\ DigitPrefix(body) = body

\* A string that starts, after blanks and an optional sign, with a digit
StartsWithInteger(v) ==
    /\ v.t = "str"
    /\ LET t == SkipSpaces(v.s)
           body == IF t # <<>> /\ Head(t) \in {"-", "+"} THEN Tail(t) ELSE t
       IN  body # <<>> /\ IsDigit(Head(body))

\* The integer such a string starts with
LeadingInteger(v) ==
    LET t == SkipSpaces(v.s)
        body == IF Head(t) \in {"-", "+"} THEN Tail(t) ELSE t
    IN  Num(IF Head(t) = "-" THEN -DigitsValue(DigitPrefix(body))
            ELSE DigitsValue(DigitPrefix(body)))

\* What getQuery hands to getNumberOrDefault for page or perPage: the base's
\* value, or the default that replaced a null or undefined one
CoercionInput(k) ==
    LET base == QueryBase(queryFromLocation, StoredInUse,
                          FilterDefaults(opts.filterDefaultValues))
    IN  IF ~IsNullish(Get(base, k)) THEN base[k]
        ELSE IF k = "page" THEN Num(1) ELSE opts.perPage

CoercionFallback(k) == IF k = "page" THEN Num(1) ELSE Num(10)

\* C13 as stated: getQuery resolves page and perPage to the number itself
\* for a number, to its integer for a numeric string, and to the fallback (1
\* for page, 10 for perPage whatever the caller's perPage) for anything else.
C13_NumberOrDefault ==
    Fresh =>
        \A k \in {"page", "perPage"} :
            LET x == CoercionInput(k)
            IN  query[k] = IF x.t = "num" THEN x
                           ELSE IF NumericString(x) THEN LeadingInteger(x)
                           ELSE CoercionFallback(k)

\* C13, amended: a string resolves to the integer it starts with (after
\* blanks and an optional sign) and to the fallback only when it starts with
\* none; a number resolves to itself, anything else to the fallback (1 for
\* page, 10 for perPage whatever the caller's perPage).
C13_NumberPrefixOrDefault ==
    Fresh =>
        \A k \in {"page", "perPage"} :
            LET x == CoercionInput(k)
            IN  query[k] = IF x.t = "num" THEN x
                           ELSE IF StartsWithInteger(x) THEN LeadingInteger(x)
                           ELSE CoercionFallback(k)

C13_Witness ==
    /\ Fresh
    /\ opts.perPage = Num(25)
    /\ {"page", "perPage"} \subseteq SearchKeys
    /\ SearchValue("page") = Str(<<"3">>)
    /\ SearchValue("perPage") = Str(<<"x">>)
    /\ query["page"] = Num(3)
    /\ query["perPage"] = Num(10)

\* C14: the action that opens a batch (submitted while no params are pending)
\* is applied to the query resolved at the time of the call, also when it is
\* submitted by a debounce timer or through a callback of an earlier render.
C14_AppliedToResolved ==
    (tempParams # <<>> /\ Len(batch.log) = 1) =>
        tempParams = <<queryReducer(batch.base, batch.log[1])>>

\* C15: one flush callback is scheduled while params are pending and none
\* while none are; a changeParams call that finds pending params replaces
\* them by the reducer's result on them and schedules nothing; the flush
\* callback never runs without pending params.
C15_OneScheduledFlush ==
    [][/\ Len(flushTimers) = (IF tempParams = <<>> THEN 0 ELSE 1)
       /\ Len(flushTimers') = (IF tempParams' = <<>> THEN 0 ELSE 1)
       /\ (tempParams # <<>> /\ batch' # batch) =>
             /\ Len(batch'.log) = Len(batch.log) + 1
             /\ tempParams' =
                   <<queryReducer(tempParams[1], batch'.log[Len(batch'.log)])>>
             /\ flushTimers' = flushTimers
       /\ Flush => tempParams # <<>>]_vars

C15_Witness ==
    /\ tempParams # <<>>
    /\ Len(batch.log) = 3
    /\ batch.log[1].type = SET_PER_PAGE
    /\ batch.log[3].type = SET_PAGE
    /\ tempParams[1]["page"] = Num(5)
    /\ tempParams[1]["perPage"] = Num(25)
    /\ Len(flushTimers) = 1

\* C16: with the event loop running the callbacks that are due, pending
\* params are always flushed later, with all the actions of their batch, and
\* no params are pending after that flush; also when the hook re-renders or
\* its component unmounts in between.
C16_EventuallyFlushed ==
    (tempParams # <<>>) ~>
        (tempParams = <<>> /\ flushed # <<>> /\ flushed[1].log = batch.log)

\* The flush of a batch of two actions navigated after the unmount
C16_Witness ==
    /\ phase = "unmounted"
    /\ tempParams = <<>>
    /\ flushed # <<>>
    /\ flushed[1].kind = "navigate"
    /\ Len(flushed[1].log) = 2
    /\ location = flushed[1].search
    /\ effectSearch # <<location>>

\* The list is shown again with an empty URL query after the last flush
\* navigated and the location effect stored the query resolved from its URL
BackAfterNavigate ==
    /\ Fresh
    /\ ~opts.disableSyncWithLocation
    /\ location = <<>>
    /\ flushed # <<>>
    /\ flushed[1].kind = "navigate"
    /\ params = <<RenderQuery(opts, flushed[1].search, <<>>, <<>>)>>

\* C17 as stated: back on the list with an empty URL query, the resolved
\* page, perPage, sort, order and filters are those of the last flushed params.
C17_KeptOnReturn ==
    BackAfterNavigate =>
        \A k \in {"page", "perPage", "sort", "order", "filters"} :
            Get(query, k) = Get(flushed[1].value[1], k)

\* C17, amended: when the filter values of the last flushed params are JSON
\* values, the page, perPage, sort, order and filters resolved back on the
\* list with an empty URL query are those of the last flushed params.
C17_JSONValuesKeptOnReturn ==
    (BackAfterNavigate /\ JSONFilterValues(flushed[1].value[1])) =>
        \A k \in {"page", "perPage", "sort", "order", "filters"} :
            Get(query, k) = Get(flushed[1].value[1], k)

C17_Witness ==
    /\ BackAfterNavigate
    /\ JSONFilterValues(flushed[1].value[1])
    /\ flushed[1].value[1]["perPage"] = Num(25)
    /\ flushed[1].value[1]["page"] = Num(5)
    /\ query["perPage"] = Num(25)
    /\ query["page"] = Num(5)
    /\ opts.perPage = Num(10)

\* C18: the store is written only by the location effect, which runs after a
\* render for a new location.search: it writes the resolved query when the
\* URL query the hook parsed has a recognized key and leaves the store as it
\* is when it has none; no mutator call, flush, render or other step writes it.
C18_StoreWrittenByLocationEffect ==
    [][IF phase = "effect" /\ phase' # "effect"
       THEN IF Cardinality(DOMAIN RenderQueryFromLocation(opts, location)) > 0
            THEN params' = <<query>>
            ELSE params' = params
       ELSE params' = params]_vars

C18_Witness ==
    /\ phase = "idle"
    /\ Len(location) = 1
    /\ location[1].k = "filter"
    /\ effectSearch = <<location>>
    /\ params = <<query>>
    /\ query["filters"] = List(<<FilterItem("published", Bool(TRUE))>>)
    /\ flushed = <<>>

\* C19: with disableSyncWithLocation the hook never navigates and never
\* writes the store, and the resolved query is the one of the local params
\* and the options whatever the URL query and the store hold.
C19_NoSyncIsLocal ==
    opts.disableSyncWithLocation =>
        /\ counts.navigate = 0
        /\ params = <<NeutralParams>>
        /\ Fresh =>
              /\ queryFromLocation = EmptyObject
              /\ query = getQuery(EmptyObject, localParams,
                                  FilterDefaults(opts.filterDefaultValues),
                                  opts.sort, opts.perPage)
              /\ \A search \in Links \cup {location},
                    stored \in {<<>>, <<CustomParams>>, params} :
                    query = RenderQuery(opts, search, stored, localParams)

C19_Witness ==
    /\ opts.disableSyncWithLocation
    /\ Fresh
    /\ Len(location) = 1
    /\ location[1].k = "filter"
    /\ flushed # <<>>
    /\ flushed[1].kind = "commit"
    /\ localParams = flushed[1].value
    /\ query["page"] = Num(2)
    /\ "filter" \notin DOMAIN query
    /\ query["filters"] = List(<<>>)

\* C20: setFilters with debounce = false hands its SET_FILTERS action to
\* changeParams within the call: the action is the last of the tick's batch,
\* which keeps its one scheduled flush and is flushed whole; setFilters with
\* debounce = true only arms the debounce timer: nothing is pending or
\* scheduled that was not before, until the timer fires.
C20_SetFiltersPaths ==
    [][/\ \A f \in FilterInputs :
             setFiltersNow(f, DisplayedFor(f)) =>
                /\ tempParams' # <<>>
                /\ batch'.log[Len(batch'.log)] = SetFiltersAction(f, DisplayedFor(f))
                /\ Len(flushTimers') = 1
                /\ debounceTimers' = debounceTimers
                /\ tempParams # <<>> =>
                      /\ batch'.log = Append(batch.log, SetFiltersAction(f, DisplayedFor(f)))
                      /\ flushTimers' = flushTimers
       /\ \A f \in FilterInputs :
             setFiltersDebounced(f, DisplayedFor(f)) =>
                /\ tempParams' = tempParams
                /\ flushTimers' = flushTimers
                /\ batch' = batch
                /\ counts' = counts
                /\ \E i \in 1..Len(debounceTimers') :
                      /\ debounceTimers'[i].filters = f
                      /\ debounceTimers'[i].current
       /\ Flush => flushed' # <<>> /\ flushed'[1].log = batch.log]_vars

C20_Witness ==
    /\ flushed # <<>>
    /\ counts.opened = 1
    /\ Len(flushed[1].log) = 2
    /\ flushed[1].log[1].type = SET_PAGE
    /\ flushed[1].log[2].type = SET_FILTERS
    /\ flushed[1].log[2].payload.filters = List(<<TitleFilter>>)
    /\ flushed[1].value[1]["filters"] = List(<<TitleFilter>>)
    /\ Len(debounceTimers) = 1
    /\ debounceTimers[1].filters = <<>>
    /\ tempParams = <<>>
    /\ flushTimers = <<>>

====
